---- MODULE Spec2Model ----
(***************************************************************************)
(* Model of the schedule compilation pipeline of django-lass-schedule.      *)
(*                                                                          *)
(* Time is a whole number of ticks of one hour, counted from the midnight   *)
(* (UTC) that begins a Monday.  A timeslot is a record                      *)
(*   [id, start_time, duration, show, term]                                 *)
(* where id is the primary key (0 for an unsaved, synthetic slot), show is  *)
(* the primary key of the show of its season and term is the term of its    *)
(* season (NoTerm when the model does not track it).                        *)
(*                                                                          *)
(* Timeslot.end_time is start_time + duration.  models/timeslot.py declares *)
(* it as a property: utils/week_table.py reads it as a value, while         *)
(* utils/filler.py and utils/list.py call it, end_time(), which applies a   *)
(* datetime and raises TypeError.                                           *)
(***************************************************************************)
EXTENDS Integers, Sequences, FiniteSets, TLC

(* ---- bounds of the model ---- *)
MaxTime == 2
MaxDur == 1
MaxStore == 2
MaxTerms == 1
MaxBlocks == 2
MaxShows == 1
MaxRules == 2

Times == 0..MaxTime

(* ---- distinguished values ---- *)
\* Primary key of the one show whose show type is named 'filler'.
FillerShow == 0
\* Primary key of the show of every stored timeslot of the filler model.
RealShow == 1
NoTerm == [start_date |-> -1, end_date |-> -1]
\* No call made yet / no outcome yet.
NoCall == [timeslots |-> <<>>, start_time |-> -1, end_time |-> -1]
NoOutcome ==
    [status |-> "none", msg |-> "", list |-> <<>>, queries |-> 0, built |-> 0]

VARIABLES
    store,      \* Timeslot.objects: the set of saved timeslots
    terms,      \* Term.objects: the set of saved terms
    call,       \* arguments of the last filler.fill call, or NoCall
    filled,     \* outcome of the last filler.fill call, or NoOutcome
    refilled,   \* outcome of filling the last outcome again, or NoOutcome
    blocks,     \* Block.objects: blocks[pk] is the priority of block pk
    showRules,  \* BlockShowRule.objects, in the order the store returns them
    rangeRules, \* BlockRangeRule.objects.order_by('start_time')
    annotated,  \* outcome of the last block.annotate_slot, or NoAnnotation
    timed,      \* the last call of a function on datetimes and its result
    made,       \* the last call on the schedule classes, or NoMade
    shown,      \* the last call of a view or builder and its outcome
    listed      \* the last call of coming_up or filler.timeslot, or NoListed

fillVars == <<store, terms, call, filled, refilled>>
blockVars == <<blocks, showRules, rangeRules, annotated>>
timeVars == <<timed>>
objectVars == <<made>>
viewVars == <<shown>>
listVars == <<listed>>
vars == <<fillVars, blockVars, timeVars, objectVars, viewVars, listVars>>
\* What the actions of one group leave alone.
fillOthers == <<blockVars, timeVars, objectVars, viewVars, listVars>>
blockOthers == <<fillVars, timeVars, objectVars, viewVars, listVars>>
timeOthers == <<fillVars, blockVars, objectVars, viewVars, listVars>>
objectOthers == <<fillVars, blockVars, timeVars, viewVars, listVars>>
viewOthers == <<fillVars, blockVars, timeVars, objectVars, listVars>>
listOthers == <<fillVars, blockVars, timeVars, objectVars, viewVars>>

(* ---- models/timeslot.py ---- *)
end_time(ts) == ts.start_time + ts.duration

Timeslot(pk, st, dur, sh, tm) ==
    [id |-> pk, start_time |-> st, duration |-> dur, show |-> sh, term |-> tm]

\* The rows of ShowType as Timeslot.is_collapsible reads them.  ShowType
\* (models/show.py) declares the fields public, has_showdb_entry and
\* can_be_messaged and no is_collapsible: the attribute exists when the base
\* class (lass_utils Type) supplies it, and then is_collapsible[show] is its
\* value on the show type of the show, for the filler show and the show of
\* the stored timeslots.
ShowTypes ==
    {[declared |-> FALSE,
      is_collapsible |-> [sh \in {FillerShow, RealShow} |-> FALSE]]}
      \cup {[declared |-> TRUE, is_collapsible |-> f] :
                f \in [{FillerShow, RealShow} -> BOOLEAN]}

MsgNoCollapsible == "'ShowType' object has no attribute 'is_collapsible'"

\* sequences of distinct elements of S with at most n elements
RECURSIVE SeqsUpTo(_, _)
SeqsUpTo(S, n) ==
    IF n = 0 THEN {<<>>}
    ELSE LET shorter == SeqsUpTo(S, n - 1)
         IN  shorter \cup
             {Append(q, x) : q \in {r \in shorter : Len(r) = n - 1}, x \in S}

Distinct(q) == \A i, j \in 1..Len(q) : i # j => q[i] # q[j]

\* Meta.ordering = ['start_time']: a list read from the store is ordered
\* by start time; the order of equal start times is the database's choice.
Ordered(q) == \A i \in 1..(Len(q) - 1) : q[i].start_time <= q[i + 1].start_time

(* ---- models/term.py ---- *)
\* Meta.get_latest_by = 'start_date': latest() of a non-empty query.
LatestTerm(q) == CHOOSE t \in q : \A u \in q : u.start_date <= t.start_date

\* Term.of: the term whose [start_date, end_date) holds date, or NoTerm.
TermOf(date) ==
    LET q == {t \in terms : t.start_date <= date /\ t.end_date > date}
    IN  IF q = {} THEN NoTerm ELSE LatestTerm(q)

TermBefore_ended_earlier(date) ==
    LET q == {t \in terms : t.start_date <= date /\ t.end_date < date}
    IN  IF q = {} THEN NoTerm ELSE LatestTerm(q)

\* Term.before: the latest term that ended by date, or NoTerm.
TermBefore(date) ==
    LET q == {t \in terms : t.start_date <= date /\ t.end_date <= date}
    IN  IF q = {} THEN NoTerm ELSE LatestTerm(q)

(* ---- utils/filler.py ---- *)
MsgNoTerm == "Tried to create filler show outside a term."
MsgStartAfterEnd == "Start time is after end time."
MsgSpecify == "Specify end or duration."
MsgBoth == "Do not specify both end and duration."

\* An exception leaving fill: nothing is returned.
Raise(acc, exc, m) ==
    [acc EXCEPT !.status = exc, !.msg = m, !.list = <<>>]

\* filler.term: Term.of(start_time), else Term.before(start_time).
term(st) == IF TermOf(st) # NoTerm THEN TermOf(st) ELSE TermBefore(st)

\* Store queries made by filler.term: Term.of, then Term.before if needed.
termQueries(st) == IF TermOf(st) # NoTerm THEN 1 ELSE 2

\* Store queries made by filler.show: the configured cache backend
\* (testsettings.py) is the dummy cache, so every call asks the show store.
showQueries == 1

\* filler.timeslot with filler.season and filler.show inlined.  acc is the
\* running outcome of fill; end_opt and dur_opt are {} for None, {v} for v.
timeslot(acc, st, end_opt, dur_opt) ==
    IF acc.status # "ok" THEN acc
    ELSE IF dur_opt = {} /\ end_opt = {} THEN Raise(acc, "ValueError", MsgSpecify)
    ELSE IF dur_opt # {} /\ end_opt # {} THEN Raise(acc, "ValueError", MsgBoth)
    ELSE
        LET dur == IF dur_opt = {}
                   THEN (CHOOSE e \in end_opt : TRUE) - st
                   ELSE CHOOSE d \in dur_opt : TRUE
            looked == [acc EXCEPT !.queries = @ + termQueries(st)]
        IN  IF term(st) = NoTerm
            THEN Raise(looked, "ValueError", MsgNoTerm)
            ELSE [looked EXCEPT
                    !.queries = @ + showQueries,
                    !.built = @ + 1,
                    !.list = Append(@, Timeslot(0, st, dur, FillerShow, term(st)))]

\* x.end_time(): the property gives a datetime, and calling it raises.
MsgNotCallable == "'datetime.datetime' object is not callable"

\* The value a helper of the filler returns, or the exception it raises.
Found(time) == [exc |-> "", value |-> time]
NotFound(exc, time) == [exc |-> exc, value |-> time]

\* filler.end_before: time when no stored slot ends at or before time;
\* when one does, latest() returns a slot and end_time() on it raises.
end_before(time) ==
    LET slots == {s \in store : s.start_time <= time - s.duration}
    IN  IF slots = {} THEN Found(time) ELSE NotFound("TypeError", time)

start_after_unfiltered(time) ==
    IF store = {} THEN time
    ELSE CHOOSE t \in {s.start_time : s \in store} :
            \A s \in store : t <= s.start_time

\* filler.start_after: start of the first stored slot starting at or after
\* time, else time.
start_after(time) ==
    LET slots == {s \in store : s.start_time >= time}
    IN  IF slots = {} THEN time
        ELSE CHOOSE t \in {s.start_time : s \in slots} :
                \A s \in slots : t <= s.start_time

Last(q) == q[Len(q)]

\* A store query made while evaluating the arguments of a timeslot() call.
Queried(acc) == [acc EXCEPT !.queries = @ + 1]

\* The test of the for loop of fill: False for an empty list; for any
\* other list the right operand calls end_time() on the last slot placed
\* and raises before ts is compared.
gap_before(filled_timeslots, ts) ==
    IF filled_timeslots = <<>> THEN Found(FALSE)
    ELSE NotFound("TypeError", FALSE)

\* The for loop of fill (lines 200-211), from input index i on.
RECURSIVE FillLoop(_, _, _)
FillLoop(acc, timeslots, i) ==
    IF i > Len(timeslots) \/ acc.status # "ok" THEN acc
    ELSE
        LET ts == timeslots[i]
            gap == gap_before(acc.list, ts)
        IN  IF gap.exc # "" THEN Raise(acc, gap.exc, MsgNotCallable)
            ELSE IF gap.value
            THEN Raise(acc, "TypeError", MsgNotCallable)
            ELSE FillLoop([acc EXCEPT !.list = Append(@, ts)], timeslots,
                          i + 1)

start_not_before_end(start, end) == start >= end

\* The argument check of fill.
start_after_end(start, end) == start > end

\* timeslot(end_before(start_time), until): end_before is evaluated first,
\* then until, then the filler slot is built.
timeslot_from_end_before(acc, start, until_queries, until) ==
    LET eb == end_before(start)
        asked == Queried(acc)
    IN  IF eb.exc # "" THEN Raise(asked, eb.exc, MsgNotCallable)
        ELSE timeslot([asked EXCEPT !.queries = @ + until_queries],
                      eb.value, {until}, {})

fill_without_gap_tests(timeslots, start, end) ==
    LET acc0 == [status |-> "ok", msg |-> "", list |-> <<>>, queries |-> 0,
                 built |-> 0]
    IN  IF start_after_end(start, end) THEN Raise(acc0, "ValueError", MsgStartAfterEnd)
        ELSE IF timeslots = <<>>
        THEN timeslot_from_end_before(acc0, start, 1, start_after(end))
        ELSE LET pre == IF timeslots[1].start_time > start
                        THEN timeslot_from_end_before(
                                 acc0, start, 0, timeslots[1].start_time)
                        ELSE acc0
             IN  IF pre.status # "ok" THEN pre
                 ELSE [pre EXCEPT !.list = @ \o timeslots]

\* filler.fill.  The trailing test (line 213) calls end_time() on the last
\* slot of a list that is never empty there.
fill(timeslots, start, end) ==
    LET acc0 == [status |-> "ok", msg |-> "", list |-> <<>>, queries |-> 0,
                 built |-> 0]
    IN  IF start_after_end(start, end) THEN Raise(acc0, "ValueError", MsgStartAfterEnd)
        ELSE IF timeslots = <<>>
        THEN timeslot_from_end_before(acc0, start, 1, start_after(end))
        ELSE
            LET pre == IF timeslots[1].start_time > start
                       THEN timeslot_from_end_before(
                                acc0, start, 0, timeslots[1].start_time)
                       ELSE acc0
                mid == FillLoop(pre, timeslots, 1)
            IN  IF mid.status # "ok" THEN mid
                ELSE Raise(mid, "TypeError", MsgNotCallable)

(* ---- aware datetimes: django.utils.timezone as the code calls it ---- *)
\* An aware datetime is [wall, off, tz]: the wall-clock reading, the UTC
\* offset of its tzinfo and the zone of that tzinfo; the instant it names is
\* wall - off.  The filling algorithm compares datetimes by instant only and
\* is modelled on instants; the block rules, the ranges and the schedule
\* objects read wall clocks and are modelled on aware datetimes.
UTC == "UTC"
LocalTz == "local"
Zones == {UTC, LocalTz}
\* The tzinfo of a naive datetime: none.
Naive == "naive"
is_naive(d) == d.tz = Naive

\* timedelta(days=1), in ticks.
DAY == 24
WEEK == 7 * DAY

\* The configured local zone: one hour ahead of UTC, and one more hour from
\* the instant its daylight saving time starts (01:00 UTC on the second day).
StdOffset == 1
DstShift == 1
DstStart == DAY + 1

\* tz.utcoffset at an instant.
utcoffset(tz, utc) ==
    IF tz = UTC THEN 0
    ELSE IF utc >= DstStart THEN StdOffset + DstShift ELSE StdOffset

Aware(wall, off, tz) == [wall |-> wall, off |-> off, tz |-> tz]
Instant(d) == d.wall - d.off

\* value.astimezone(tz), normalised: the instant as the zone reads it.
astimezone(utc, tz) == Aware(utc + utcoffset(tz, utc), utcoffset(tz, utc), tz)

\* A datetime as the database hands it over: aware, in UTC.
FromDb(utc) == astimezone(utc, UTC)

\* timezone.localtime(value): the value in the current (local) zone.
localtime(d) == astimezone(Instant(d), LocalTz)

\* timezone.make_naive(value, tz): the wall clock of the value in tz.
make_naive(d, tz) == astimezone(Instant(d), tz).wall

\* The offsets with which zone tz reads the wall clock `naive`.
LocalizeOffsets(naive, tz) ==
    {o \in {utcoffset(tz, u) : u \in {DstStart - 1, DstStart}} :
        utcoffset(tz, naive - o) = o}

NoDate == Aware(0, 0, "none")
Returned(d) == [exc |-> "", value |-> d]
Raised(exc) == [exc |-> exc, value |-> NoDate]

\* timezone.make_aware(naive, tz) is tz.localize(naive, is_dst=None): a wall
\* clock the zone never shows (the hour skipped when its daylight saving
\* time starts) raises.
make_aware(naive, tz) ==
    LET offs == LocalizeOffsets(naive, tz)
    IN  IF offs = {} THEN Raised("NonExistentTimeError")
        ELSE IF Cardinality(offs) > 1 THEN Raised("AmbiguousTimeError")
        ELSE Returned(Aware(naive, CHOOSE o \in offs : TRUE, tz))

\* datetime + timedelta: the wall clock moves, the tzinfo stays as it is.
plus(d, td) == Aware(d.wall + td, d.off, d.tz)

(* ---- utils/nltime.py ---- *)
\* nld: the naive local time of an aware datetime.
nld(d) == make_naive(localtime(d), LocalTz)

nldiff(a, b) == nld(a) - nld(b)

\* r.dst_add(date, delta), as Schedule.__init__ calls it on utils/range.py:
\* that module defines dst_add_days and no dst_add, so the lookup of the
\* attribute raises for every date and delta.
dst_add(date, td) == Raised("AttributeError")

(* ---- utils/range.py ---- *)
\* dst_add_days: a naive datetime moves by whole days; an aware one is
\* stripped to the wall clock of its own tzinfo, moved, and read again in
\* the zone of that tzinfo.
dst_add_days(start_date, num_days) ==
    IF is_naive(start_date)
    THEN Returned(plus(start_date, num_days * DAY))
    ELSE make_aware(make_naive(start_date, start_date.tz) + num_days * DAY,
                    start_date.tz)

\* in_range(Timeslot, start, end, ...).order_by('start_time') with no
\* exclusion asked for: the lists of the stored slots that meet [start, end),
\* ordered by start time.
in_range(start, end) ==
    LET found == {ts \in store : end_time(ts) > start /\ ts.start_time < end}
    IN  {q \in SeqsUpTo(found, Cardinality(found)) :
            /\ Len(q) = Cardinality(found)
            /\ Distinct(q) /\ Ordered(q)}

NoRange == [start |-> NoDate, end |-> NoDate, timespan |-> 0, data |-> <<>>]
RangeMade(r) == [exc |-> "", range |-> r]
RangeRaised(exc) == [exc |-> exc, range |-> NoRange]

\* ScheduleRange.between(start, end, with_filler_timeslots=...): the
\* outcomes the store allows.
between(start, end, with_filler_timeslots) ==
    {IF with_filler_timeslots
     THEN LET f == fill(q, Instant(start), Instant(end))
          IN  IF f.status # "ok" THEN RangeRaised(f.status)
              ELSE RangeMade([start |-> start, end |-> end,
                              timespan |-> Instant(end) - Instant(start),
                              data |-> f.list])
     ELSE RangeMade([start |-> start, end |-> end,
                     timespan |-> Instant(end) - Instant(start),
                     data |-> q]) :
        q \in in_range(Instant(start), Instant(end))}

\* ScheduleRange.within(date, offset, ...).
within(date, offset, with_filler_timeslots) ==
    between(date, plus(date, offset), with_filler_timeslots)

\* ScheduleRange.day(date, ...).
day(date, with_filler_timeslots) == within(date, DAY, with_filler_timeslots)

NoRanges == <<>>
WeekMade(ranges) == [exc |-> "", ranges |-> ranges]
WeekRaised(exc) == [exc |-> exc, ranges |-> NoRanges]

\* The list comprehension of week with dst_compensate set: the days from
\* day i on, after the ranges in acc.
RECURSIVE week_days(_, _, _, _)
week_days(date, i, with_filler_timeslots, acc) ==
    IF i = 7 THEN {WeekMade(acc)}
    ELSE LET d == dst_add_days(date, i)
         IN  IF d.exc # "" THEN {WeekRaised(d.exc)}
             ELSE UNION {IF r.exc # "" THEN {WeekRaised(r.exc)}
                         ELSE week_days(date, i + 1, with_filler_timeslots,
                                        Append(acc, r.range)) :
                            r \in day(d.value, with_filler_timeslots)}

\* ScheduleRange.week.  The conditional expression is the body of the first
\* lambda, so without dst_compensate add_days(day) is the second lambda, a
\* function, and within fails on function + timedelta.
week(date, split, dst_compensate, with_filler_timeslots) ==
    IF split
    THEN IF dst_compensate
         THEN week_days(date, 0, with_filler_timeslots, <<>>)
         ELSE {WeekRaised("TypeError")}
    ELSE {IF r.exc # "" THEN WeekRaised(r.exc) ELSE WeekMade(<<r.range>>) :
             r \in within(date, WEEK, with_filler_timeslots)}

(* ---- views/week.py ---- *)
\* date.weekday(): the day of the week of the wall clock, Monday 0.
weekday(date) == (date.wall \div DAY) % 7

\* to_monday of the week view.
week_to_monday(date) == plus(date, 0 - weekday(date) * DAY)

(* ---- utils/block.py ---- *)
\* getattr(settings, 'DEFAULT_SHOW_BLOCK', 2); the settings do not set it.
DEFAULT_SHOW_BLOCK == 2
\* The value False of a hook that matched nothing.
NoMatch == 0

NoAnnotation ==
    [status |-> "none", slot |-> Timeslot(0, NoDate, 0, 0, NoTerm), hook |-> "",
     block |-> 0]

\* date.replace(hour=0, minute=0, second=0, microsecond=0): midnight on the
\* wall clock of the datetime's own tzinfo.
midnight(date) == Aware(date.wall - (date.wall % DAY), date.off, date.tz)

\* block.delta: the local time elapsed between that midnight and date.
delta(date) == nldiff(date, midnight(date))

\* The test of hook_range.h on one rule: the start of the slot, or that
\* start a day on, lies in the rule's range.
range_rule_matches(rule, ts) ==
    \E slot_time \in {delta(ts.start_time), delta(ts.start_time) + DAY} :
        rule.start_time <= slot_time /\ slot_time < rule.end_time

\* hook_range.h: the block of the first matching rule, in the order of the
\* query (by start_time), or NoMatch.
RECURSIVE hook_range(_, _, _)
hook_range(rules, ts, i) ==
    IF i > Len(rules) THEN NoMatch
    ELSE IF range_rule_matches(rules[i], ts) THEN rules[i].block
    ELSE hook_range(rules, ts, i + 1)

\* hook_show.h: the block of the first rule of the slot's show, in the
\* order of the query, or NoMatch.
RECURSIVE hook_show(_, _, _)
hook_show(rules, ts, i) ==
    IF i > Len(rules) THEN NoMatch
    ELSE IF rules[i].show = ts.show THEN rules[i].block
    ELSE hook_show(rules, ts, i + 1)

\* hook_default: any slot matches the default block.
hook_default(ts) == DEFAULT_SHOW_BLOCK

HOOKS_range_first == <<"hook_range", "hook_show", "hook_default">>

\* The hooks, in the order annotate_slot runs them.
HOOKS == <<"hook_show", "hook_range", "hook_default">>

\* hook(slot) for a prepared hook.
run_hook(hook, ts) ==
    CASE hook = "hook_show" -> hook_show(showRules, ts, 1)
      [] hook = "hook_range" -> hook_range(rangeRules, ts, 1)
      [] hook = "hook_default" -> hook_default(ts)

\* annotate_slot from hook i on: the first hook with a true match names
\* the block; blocks[match] raises KeyError for a block that is not stored.
RECURSIVE annotate_slot(_, _, _)
annotate_slot(ts, hooks, i) ==
    IF i > Len(hooks)
    THEN [status |-> "ok", slot |-> ts, hook |-> "", block |-> 0]
    ELSE LET match == run_hook(hooks[i], ts)
         IN  IF match # NoMatch
             THEN IF match \in DOMAIN blocks
                  THEN [status |-> "ok", slot |-> ts, hook |-> hooks[i],
                        block |-> match]
                  ELSE [status |-> "KeyError", slot |-> ts, hook |-> hooks[i],
                        block |-> 0]
             ELSE annotate_slot(ts, hooks, i + 1)

(* ---- the block tables and the annotation of a slot ---- *)
BlockInit ==
    /\ blocks = <<>>
    /\ showRules = <<>>
    /\ rangeRules = <<>>
    /\ annotated = NoAnnotation

\* Block(priority=...).save(): a new row with the next primary key.
SaveBlock(priority) ==
    /\ annotated = NoAnnotation
    /\ Len(blocks) < MaxBlocks
    /\ blocks' = Append(blocks, priority)
    /\ UNCHANGED <<showRules, rangeRules, annotated>>
    /\ UNCHANGED blockOthers

\* BlockShowRule(block=..., show=...).save().
SaveShowRule(block, show) ==
    /\ annotated = NoAnnotation
    /\ Len(showRules) + Len(rangeRules) < MaxRules
    /\ block \in DOMAIN blocks
    /\ showRules' = Append(showRules, [block |-> block, show |-> show])
    /\ UNCHANGED <<blocks, rangeRules, annotated>>
    /\ UNCHANGED blockOthers

InsertAt(q, p, x) == SubSeq(q, 1, p - 1) \o <<x>> \o SubSeq(q, p, Len(q))

\* BlockRangeRule(block=..., start_time=..., end_time=...).save(): the new
\* row takes place p of the query ordered by start_time; among equal start
\* times the place is the store's choice.
SaveRangeRule(block, st, et, p) ==
    /\ annotated = NoAnnotation
    /\ Len(showRules) + Len(rangeRules) < MaxRules
    /\ block \in DOMAIN blocks
    /\ st < et /\ et <= st + DAY
    /\ p \in 1..(Len(rangeRules) + 1)
    /\ \A i \in 1..(p - 1) : rangeRules[i].start_time <= st
    /\ \A i \in p..Len(rangeRules) : st <= rangeRules[i].start_time
    /\ rangeRules' = InsertAt(rangeRules, p,
                        [block |-> block, start_time |-> st, end_time |-> et])
    /\ UNCHANGED <<blocks, showRules, annotated>>
    /\ UNCHANGED blockOthers

\* One step of block.annotate: annotate_slot(slot, blocks, prepared_hooks).
AnnotateSlot(ts) ==
    /\ annotated = NoAnnotation
    /\ annotated' = annotate_slot(ts, HOOKS, 1)
    /\ UNCHANGED <<blocks, showRules, rangeRules>>
    /\ UNCHANGED blockOthers

\* The request that annotated the slot is over.
EndAnnotate ==
    /\ annotated # NoAnnotation
    /\ annotated' = NoAnnotation
    /\ UNCHANGED <<blocks, showRules, rangeRules>>
    /\ UNCHANGED blockOthers

\* The start times of the range rules that get saved: the first hours of the
\* day.
RuleStarts == {0, 1}

BlockNext ==
    \/ \E priority \in 1..MaxBlocks : SaveBlock(priority)
    \/ \E block \in 1..MaxBlocks, show \in 1..MaxShows :
          SaveShowRule(block, show)
    \/ \E block \in 1..MaxBlocks, st \in RuleStarts, len \in {1, DAY},
          p \in 1..MaxRules : SaveRangeRule(block, st, st + len, p)
    \/ \E st \in Times, show \in 0..MaxShows :
          AnnotateSlot(Timeslot(1, FromDb(st), 1, show, NoTerm))
    \/ EndAnnotate

(* ---- utils/object.py ---- *)
\* date.isocalendar()[2]: the day of the week of the wall clock, Monday 1.
isoweekday(date) == ((date.wall \div DAY) % 7) + 1

to_monday_from_sunday(date) == plus(date, 0 - isoweekday(date) * DAY)

\* to_monday: the same wall-clock time on the Monday of the date's week.
to_monday(date) == plus(date, 0 - (isoweekday(date) - 1) * DAY)

\* The value None, and a value that is not None.
None == [none |-> TRUE, value |-> <<>>]
Some(v) == [none |-> FALSE, value |-> v]

\* The builders of the model: one that returns None, one that returns an
\* empty list, one that returns a list made from the schedule.
Builders == {"builder_none", "builder_empty", "builder_slots"}
CallBuilder(builder, self) ==
    CASE builder = "builder_none" -> None
      [] builder = "builder_empty" -> Some(<<>>)
      [] builder = "builder_slots" -> Some(<<self.start, self.end>>)

NoObject ==
    [cls |-> "none", start |-> NoDate, end |-> NoDate, range |-> 0,
     builder |-> "", data |-> None, calls |-> 0, first |-> None, reads |-> 0,
     read |-> None]

\* Schedule.__init__, with the start and the default range of DaySchedule
\* and WeekSchedule (range 0 stands for none given).  self.end =
\* r.dst_add(start, range) raises, so no object is made.  calls counts the invocations of the builder, first is
\* the value of its first invocation, reads counts the reads of .data and
\* read is the value of the last read.
Schedule__init__(cls, start, range, builder) ==
    LET st == IF cls = "Week" THEN to_monday(start) ELSE start
        rg == IF range # 0 \/ cls = "Schedule" THEN range
              ELSE IF cls = "Week" THEN WEEK ELSE DAY
        end == dst_add(st, rg)
    IN  IF end.exc # "" THEN [exc |-> end.exc, obj |-> NoObject]
        ELSE [exc |-> "",
              obj |-> [cls |-> cls, start |-> st, end |-> end.value,
                       range |-> Instant(end.value) - Instant(st),
                       builder |-> builder, data |-> None, calls |-> 0,
                       first |-> None, reads |-> 0, read |-> None]]

\* Schedule.replace(**kwargs): kwargs maps some of start, range, builder.
replace(self, kwargs) ==
    LET initargs == [key \in {"start", "range", "builder"} |->
                        IF key \in DOMAIN kwargs THEN kwargs[key]
                        ELSE self[key]]
    IN  Schedule__init__(self.cls, initargs["start"], initargs["range"],
                         initargs["builder"])

previous(self) == replace(self, [key \in {"start"} |->
                                    plus(self.start, 0 - self.range)])

next(self) == replace(self, [key \in {"start"} |->
                                plus(self.start, self.range)])

\* DaySchedule.up: WeekSchedule(start=self.start, builder=self.builder).
up(self) == Schedule__init__("Week", self.start, 0, self.builder)

\* WeekSchedule.days: DaySchedule(start=self.start + timedelta(days=i),
\* builder=self.builder) for i in range(0, 7), made in that order.
WeekSchedule_days(self) ==
    LET new(i) == Schedule__init__("Day", plus(self.start, i * DAY), 0,
                                   self.builder)
        failed == {i \in 0..6 : new(i).exc # ""}
        first == CHOOSE i \in failed : \A j \in failed : i <= j
    IN  IF failed # {} THEN [exc |-> new(first).exc, list |-> <<>>]
        ELSE [exc |-> "", list |-> [i \in 1..7 |-> new(i - 1).obj]]

\* Schedule.data: the builder runs while _data is None.
data(self) ==
    IF self.data = None
    THEN LET built == CallBuilder(self.builder, self)
         IN  [self EXCEPT !.data = built, !.calls = self.calls + 1,
                          !.first = IF self.calls = 0 THEN built
                                    ELSE self.first,
                          !.reads = self.reads + 1, !.read = built]
    ELSE [self EXCEPT !.reads = self.reads + 1, !.read = self.data]

\* Timeslot.objects.public().select_related().in_range(start, end), as a
\* list: the stored slots that end after start and start before end, in
\* the order of Meta.ordering.  Every stored slot of the model is public.
timeslots_in_range(start, end) ==
    LET found == {ts \in store :
                     ts.start_time > start - ts.duration /\ ts.start_time < end}
    IN  {q \in SeqsUpTo(found, Cardinality(found)) :
            /\ Len(q) = Cardinality(found)
            /\ Distinct(q) /\ Ordered(q)}

\* The datetime that slot i of a filled list carries: a stored slot and a
\* filler slot that starts where a stored slot ends carry UTC datetimes; a
\* filler slot that starts at the start asked for carries that datetime.
slot_date(ts, i, start) ==
    IF /\ ts.id = 0 /\ i = 1
       /\ ts.start_time = Instant(start)
       /\ ~\E x \in store : x.start_time <= Instant(start) - x.duration
    THEN start
    ELSE FromDb(ts.start_time)

NoData == [exc |-> "", str |-> "", list |-> <<>>, slot_queries |-> 0]

\* block.annotate over the slots from i on: each slot with its block.
RECURSIVE annotate(_, _, _, _)
annotate(acc, slotlist, i, start) ==
    IF i > Len(slotlist) THEN acc
    ELSE LET ts == slotlist[i]
             a == annotate_slot(
                      [ts EXCEPT !.start_time = slot_date(ts, i, start)],
                      HOOKS, 1)
         IN  IF a.status # "ok" THEN [acc EXCEPT !.exc = a.status, !.list = <<>>]
             ELSE annotate([acc EXCEPT !.list =
                                Append(@, [slot |-> ts, block |-> a.block])],
                           slotlist, i + 1, start)

\* range_builder(schedule): the results the store allows.  str is the
\* excuse returned instead of a list, slot_queries counts the queries on
\* the timeslots (those of the filler and of the blocks apart).
range_builder(schedule) ==
    LET start == Instant(schedule.start)
        end == Instant(schedule.end)
    IN  IF TermOf(start) = NoTerm
        THEN {[NoData EXCEPT !.str = IF TermBefore(start) = NoTerm
                                     THEN "empty" ELSE "not_in_term"]}
        ELSE {IF slots = <<>>
              THEN [NoData EXCEPT !.str = "empty", !.slot_queries = 1]
              ELSE LET f == fill(slots, start, end)
                   IN  IF f.status # "ok"
                       THEN [NoData EXCEPT !.exc = f.status,
                                           !.slot_queries = 1]
                       ELSE annotate([NoData EXCEPT !.slot_queries = 1],
                                     f.list, 1, schedule.start) :
                 slots \in timeslots_in_range(start, end)}

(* ---- utils/week_table.py ---- *)
HOUR == 1
SCHEDULE_DAY_OFFSET == 1

\* raise utils.exceptions.ScheduleInconsistencyError(...): week_table.py
\* imports the package schedule.utils, whose __init__.py imports none of
\* its modules, and no module of the package imports
\* schedule.utils.exceptions; looking up utils.exceptions raises before the
\* exception is made and before its message is formatted.
MsgNoExceptions == "'module' object has no attribute 'exceptions'"

\* The naive local start and end of a slot of the schedule data.
nlstart_of(item) == nld(FromDb(item.slot.start_time))
nlend_of(item) == nld(FromDb(end_time(item.slot)))

\* Timeslot.is_collapsible: self.show_type.is_collapsible, the attribute of
\* the show type of the slot's show, where types are the show type rows.
is_collapsible(item, types) ==
    IF types.declared THEN Found(types.is_collapsible[item.slot.show])
    ELSE NotFound("AttributeError", FALSE)

Max2(a, b) == IF a >= b THEN a ELSE b
Min2(a, b) == IF a <= b THEN a ELSE b

\* add_partitions: the start of a slot that does not collapse, and every
\* whole hour after it and before its end, as offsets into the day.
add_partitions(day_start, day_end, item, partitions, types) ==
    LET collapsible == is_collapsible(item, types)
        start_p == Max2(day_start, nlstart_of(item)) - day_start
        end_p == Min2(day_end, nlend_of(item)) - day_start
        hour_p == (start_p - (start_p % HOUR)) + HOUR
    IN  IF collapsible.exc # ""
        THEN NotFound(collapsible.exc, partitions)
        ELSE IF collapsible.value THEN Found(partitions)
        ELSE Found(partitions \cup {start_p}
                      \cup {p \in hour_p..(end_p - 1) :
                               (p - hour_p) % HOUR = 0})

\* The state of split_days: exc names the exception raised, if any, and
\* msg is its message.
SplitStart(nlstart) ==
    [exc |-> "", msg |-> "", done_day_lists |-> <<>>, day_list |-> <<>>,
     partitions |-> {}, day_start |-> nlstart, day_end |-> nlstart + DAY]

\* rotate_day: the day list is pushed, and the new day list starts with
\* the last slot of the old one when that slot ends after the day.  For an
\* empty day list the raise statement fails on utils.exceptions.
rotate_day(st) ==
    IF st.day_list = <<>>
    THEN [st EXCEPT !.exc = "AttributeError", !.msg = MsgNoExceptions]
    ELSE [st EXCEPT !.done_day_lists = Append(@, st.day_list),
                    !.day_list = IF nlend_of(Last(st.day_list)) > st.day_end
                                 THEN <<Last(st.day_list)>> ELSE <<>>]

\* The while loop of split_days before the slot that starts at nlslot.
RECURSIVE rotate_while(_, _)
rotate_while(st, nlslot) ==
    IF st.exc # "" \/ ~(st.day_end <= nlslot) THEN st
    ELSE LET r == rotate_day(st)
         IN  IF r.exc # "" THEN r
             ELSE rotate_while([r EXCEPT !.day_start = st.day_end,
                                         !.day_end = st.day_end + DAY],
                               nlslot)

\* The for loop of split_days from slot i on.
RECURSIVE split_loop(_, _, _, _)
split_loop(st, slots, i, types) ==
    IF i > Len(slots) \/ st.exc # "" THEN st
    ELSE LET r == rotate_while(st, nlstart_of(slots[i]))
             appended == [r EXCEPT !.day_list = Append(@, slots[i])]
             added == add_partitions(r.day_start, r.day_end, slots[i],
                                     r.partitions, types)
         IN  IF r.exc # "" THEN r
             ELSE IF added.exc # ""
             THEN [appended EXCEPT !.exc = added.exc,
                                   !.msg = MsgNoCollapsible]
             ELSE split_loop([appended EXCEPT !.partitions = added.value],
                             slots, i + 1, types)

\* split_days: the day lists and the partitions, or the exception.
split_days(nlstart, slots, types) ==
    LET st == split_loop(SplitStart(nlstart), slots, 1, types)
    IN  IF st.exc # "" THEN st
        ELSE [st EXCEPT !.done_day_lists = Append(@, st.day_list)]

\* sorted(partitions).
RECURSIVE sorted(_)
sorted(S) ==
    IF S = {} THEN <<>>
    ELSE LET m == CHOOSE x \in S : \A y \in S : x <= y
         IN  <<m>> \o sorted(S \ {m})

\* A cell of the table that holds None, and one that holds (slot, rows).
NoCell == [none |-> TRUE, slot |-> Timeslot(0, 0, 0, 0, NoTerm), rows |-> 0]
Cell(item, rows) == [none |-> FALSE, slot |-> item.slot, rows |-> rows]

\* empty_table: one row for each partition, with its time on the first day
\* and n_cols cells of None.
empty_table(start, partitions, n_cols) ==
    LET times == sorted(partitions)
    IN  [r \in 1..Len(times) |->
            [time |-> start + times[r], cells |-> [c \in 1..n_cols |-> NoCell]]]

\* make_row_date(table, days)(row), for a row the table has; rows count
\* from 0.
row_date(table, days, row) == table[row + 1].time + days * DAY

\* make_add_to_table(table, days)(row, slot, rows); column
\* SCHEDULE_DAY_OFFSET + days of a row is place days + 1 of its cells.
add_to_table(table, days, row, item, rows) ==
    IF rows > 0
    THEN [table EXCEPT ![row + 1].cells[days + 1] = Cell(item, rows)]
    ELSE table

\* The while loop of populate_table_day: the first row from current_row on
\* that does not start before nlend, or the number of rows of the table
\* when there is none (the IndexError).
RECURSIVE next_row(_, _, _, _)
next_row(table, days, current_row, nlend) ==
    IF current_row >= Len(table) THEN current_row
    ELSE IF row_date(table, days, current_row) < nlend
    THEN next_row(table, days, current_row + 1, nlend)
    ELSE current_row

\* populate_table_day from slot i of the day on; st is the table, the
\* current row and the exception raised, if any.  When the row reached
\* starts after the end of the slot, the raise statement fails on
\* utils.exceptions.
RECURSIVE populate_table_day(_, _, _, _)
populate_table_day(st, days, day_list, i) ==
    IF i > Len(day_list) \/ st.exc # "" THEN st
    ELSE LET start_row == st.current_row
             nlend == nlend_of(day_list[i])
             current_row == next_row(st.table, days, start_row, nlend)
             hit_bottom == current_row >= Len(st.table)
         IN  IF ~hit_bottom /\ row_date(st.table, days, current_row) > nlend
             THEN [st EXCEPT !.exc = "AttributeError",
                             !.msg = MsgNoExceptions]
             ELSE populate_table_day(
                      [st EXCEPT !.table = add_to_table(
                                     @, days, start_row, day_list[i],
                                     current_row - start_row),
                                 !.current_row = current_row],
                      days, day_list, i + 1)

\* populate_table from day list i on.
RECURSIVE populate_table(_, _, _)
populate_table(st, data_lists, i) ==
    IF i > Len(data_lists) \/ st.exc # "" THEN st
    ELSE populate_table(
             populate_table_day([st EXCEPT !.current_row = 0], i - 1,
                                data_lists[i], 1),
             data_lists, i + 1)

NoTable ==
    [exc |-> "", msg |-> "", str |-> "", data_lists |-> <<>>,
     partitions |-> {}, table |-> <<>>]

\* tabulate(schedule): schedule.data is the value its builder gave, or the
\* exception the builder raised; types are the show type rows.
tabulate(schedule, types) ==
    LET built == schedule.data
    IN  IF built.exc # "" THEN [NoTable EXCEPT !.exc = built.exc]
        ELSE IF built.str # "" THEN [NoTable EXCEPT !.str = built.str]
        ELSE LET nlstart == nld(schedule.start)
                 split == split_days(nlstart, built.list, types)
             IN  IF split.exc # ""
                 THEN [NoTable EXCEPT !.exc = split.exc, !.msg = split.msg]
                 ELSE LET filled_table ==
                              populate_table(
                                  [exc |-> "", msg |-> "", current_row |-> 0,
                                   table |-> empty_table(
                                       nlstart, split.partitions,
                                       Len(split.done_day_lists))],
                                  split.done_day_lists, 1)
                      IN  [exc |-> filled_table.exc,
                           msg |-> filled_table.msg, str |-> "",
                           data_lists |-> split.done_day_lists,
                           partitions |-> split.partitions,
                           table |-> IF filled_table.exc # "" THEN <<>>
                                     ELSE filled_table.table]

(* ---- views/common.py ---- *)
\* URY_START: the start of programming, 07:00, taken in local time.
URY_START == 7 * HOUR

\* ury_start_on_date(date): URY_START on the date, made aware in the
\* current zone; date is the naive midnight that begins the day.
ury_start_on_date(date) == make_aware(date + URY_START, LocalTz)

schedule_available_for_swapped(start, step) ==
    LET why_not == IF TermOf(Instant(start)) = NoTerm
                   THEN IF TermBefore(Instant(start)) # NoTerm
                        THEN "notermdata" ELSE "holiday"
                   ELSE "None"
    IN  [can |-> why_not = "None", why_not |-> why_not]

\* schedule_available_for(start, step): whether a schedule can be shown
\* and, if not, why not.
schedule_available_for(start, step) ==
    LET why_not == IF TermOf(Instant(start)) = NoTerm
                   THEN IF TermBefore(Instant(start)) # NoTerm
                        THEN "holiday" ELSE "notermdata"
                   ELSE "None"
    IN  [can |-> why_not = "None", why_not |-> why_not]

(* ---- the calls a caller makes on the schedule classes ---- *)
MaxStart == 1
MaxReads == 2
Classes == {"Schedule", "Day", "Week"}
\* The ranges a caller passes; 0 stands for none given.
Ranges == {0, DAY \div 2, DAY, WEEK}
ObjectStarts == {astimezone(utc, tz) : utc \in 0..MaxStart, tz \in Zones}

NoKwargs == [key \in {} |-> 0]

\* What a call gave: the object its constructor call returned (self), that
\* object after the call (after), and the exception raised or the object
\* or list returned.
Gave(self, after, exc, obj, list) ==
    [self |-> self, after |-> after, exc |-> exc, obj |-> obj, list |-> list]
Failed(exc) == Gave(NoObject, NoObject, exc, NoObject, <<>>)

NoMade ==
    [op |-> "none", cls |-> "", start |-> NoDate, range |-> 0,
     builder |-> "", kwargs |-> NoKwargs, reads |-> 0, self |-> NoObject,
     after |-> NoObject, exc |-> "", obj |-> NoObject, list |-> <<>>]

ObjectInit == made = NoMade

\* A caller evaluates cls(start, range, builder), or a method or property
\* of the object that this constructor call returns; made records the call
\* and what it gave.
Make(op, cls, start, range, builder, kwargs, reads, gave) ==
    /\ made = NoMade
    /\ made' = [op |-> op, cls |-> cls, start |-> start, range |-> range,
                builder |-> builder, kwargs |-> kwargs, reads |-> reads,
                self |-> gave.self, after |-> gave.after, exc |-> gave.exc,
                obj |-> gave.obj, list |-> gave.list]
    /\ UNCHANGED objectOthers

\* cls(start, range, builder).
NewSchedule(cls, start, range, builder) ==
    LET new == Schedule__init__(cls, start, range, builder)
    IN  Make("__init__", cls, start, range, builder, NoKwargs, 0,
             Gave(NoObject, NoObject, new.exc, new.obj, <<>>))

\* .data read reads times in a row on the object.
RECURSIVE Reads(_, _)
Reads(self, reads) ==
    IF reads = 0 THEN self ELSE Reads(data(self), reads - 1)

\* s = cls(start, range, builder), then reads reads of s.data.
ReadData(cls, start, range, builder, reads) ==
    LET new == Schedule__init__(cls, start, range, builder)
    IN  Make("data", cls, start, range, builder, NoKwargs, reads,
             IF new.exc # "" THEN Failed(new.exc)
             ELSE Gave(new.obj, Reads(new.obj, reads), "", NoObject, <<>>))

\* A method that returns a schedule, called on the object constructed; the
\* methods assign nothing to the object they are called on.
Returning(new, outcome) ==
    IF new.exc # "" THEN Failed(new.exc)
    ELSE Gave(new.obj, new.obj, outcome.exc, outcome.obj, <<>>)

\* cls(start, range, builder).replace(**kwargs).
Replace(cls, start, range, builder, kwargs) ==
    LET new == Schedule__init__(cls, start, range, builder)
    IN  Make("replace", cls, start, range, builder, kwargs, 0,
             Returning(new, replace(new.obj, kwargs)))

\* cls(start, range, builder).previous().
Previous(cls, start, range, builder) ==
    LET new == Schedule__init__(cls, start, range, builder)
    IN  Make("previous", cls, start, range, builder, NoKwargs, 0,
             Returning(new, previous(new.obj)))

\* cls(start, range, builder).next().
Next_(cls, start, range, builder) ==
    LET new == Schedule__init__(cls, start, range, builder)
    IN  Make("next", cls, start, range, builder, NoKwargs, 0,
             Returning(new, next(new.obj)))

\* cls(start, range, builder).next().previous().
NextPrevious(cls, start, range, builder) ==
    LET new == Schedule__init__(cls, start, range, builder)
    IN  Make("next_previous", cls, start, range, builder, NoKwargs, 0,
             Returning(new, IF next(new.obj).exc # "" THEN next(new.obj)
                            ELSE previous(next(new.obj).obj)))

\* cls(start, range, builder).previous().next().
PreviousNext(cls, start, range, builder) ==
    LET new == Schedule__init__(cls, start, range, builder)
    IN  Make("previous_next", cls, start, range, builder, NoKwargs, 0,
             Returning(new, IF previous(new.obj).exc # ""
                            THEN previous(new.obj)
                            ELSE next(previous(new.obj).obj)))

\* DaySchedule(start, builder, range).up().
Up(start, range, builder) ==
    LET new == Schedule__init__("Day", start, range, builder)
    IN  Make("up", "Day", start, range, builder, NoKwargs, 0,
             Returning(new, up(new.obj)))

\* WeekSchedule(start, builder, range).days().
Days(start, range, builder) ==
    LET new == Schedule__init__("Week", start, range, builder)
    IN  Make("days", "Week", start, range, builder, NoKwargs, 0,
             IF new.exc # "" THEN Failed(new.exc)
             ELSE Gave(new.obj, new.obj, WeekSchedule_days(new.obj).exc,
                       NoObject, WeekSchedule_days(new.obj).list))

\* The caller drops what the call gave.
DropMade ==
    /\ made # NoMade
    /\ made' = NoMade
    /\ UNCHANGED objectOthers

\* The keyword arguments of the model's calls of replace.
Kwargs ==
    {[key \in {"start"} |-> d] : d \in ObjectStarts}
      \cup {[key \in {"range"} |-> r] : r \in Ranges}
      \cup {[key \in {"builder"} |-> b] : b \in Builders}
      \cup {[key \in {"start", "builder"} |->
                IF key = "start" THEN d ELSE b] :
                d \in ObjectStarts, b \in Builders}
      \cup {NoKwargs}

ObjectNext ==
    \/ \E cls \in Classes, start \in ObjectStarts, range \in Ranges,
          builder \in Builders : NewSchedule(cls, start, range, builder)
    \/ \E cls \in Classes, start \in ObjectStarts, range \in Ranges,
          builder \in Builders, reads \in 1..MaxReads :
          ReadData(cls, start, range, builder, reads)
    \/ \E cls \in Classes, start \in ObjectStarts, range \in Ranges,
          builder \in Builders, kwargs \in Kwargs :
          Replace(cls, start, range, builder, kwargs)
    \/ \E cls \in Classes, start \in ObjectStarts, range \in Ranges,
          builder \in Builders : Previous(cls, start, range, builder)
    \/ \E cls \in Classes, start \in ObjectStarts, range \in Ranges,
          builder \in Builders : Next_(cls, start, range, builder)
    \/ \E cls \in Classes, start \in ObjectStarts, range \in Ranges,
          builder \in Builders : NextPrevious(cls, start, range, builder)
    \/ \E cls \in Classes, start \in ObjectStarts, range \in Ranges,
          builder \in Builders : PreviousNext(cls, start, range, builder)
    \/ \E start \in ObjectStarts, range \in Ranges, builder \in Builders :
          Up(start, range, builder)
    \/ \E start \in ObjectStarts, range \in Ranges, builder \in Builders :
          Days(start, range, builder)
    \/ DropMade

(* ---- calls of the functions on datetimes ---- *)
MaxInstant == 50
MaxDays == 2
Instants == 0..MaxInstant
\* The aware datetimes a caller can hold: an instant read in a zone.
Dates == {astimezone(utc, tz) : utc \in Instants, tz \in Zones}

NoTimed == [op |-> "none"]

TimeInit == timed = NoTimed

\* hook_range.h(ts) over the one stored rule [st, st + 2).
RangeHook(st, date) ==
    LET rule == [block |-> 1, start_time |-> st, end_time |-> st + 2]
        ts == Timeslot(1, date, 1, RealShow, NoTerm)
    IN  /\ timed = NoTimed
        /\ timed' = [op |-> "hook_range", rule |-> rule, date |-> date,
                     result |-> hook_range(<<rule>>, ts, 1)]
        /\ UNCHANGED timeOthers

\* The naive datetimes a caller can hold.
NaiveDates == {Aware(w, 0, Naive) : w \in Instants}

\* dst_add_days(start_date, num_days).
DstAddDays(start_date, num_days) ==
    /\ timed = NoTimed
    /\ timed' = [op |-> "dst_add_days", date |-> start_date,
                 days |-> num_days,
                 result |-> dst_add_days(start_date, num_days)]
    /\ UNCHANGED timeOthers

\* ScheduleRange.week(date, split_days, dst_compensate,
\* with_filler_timeslots=...).
Week(date, split, dst_compensate, with_filler_timeslots) ==
    /\ timed = NoTimed
    /\ \E result \in week(date, split, dst_compensate,
                          with_filler_timeslots) :
          timed' = [op |-> "week", date |-> date, split_days |-> split,
                    dst_compensate |-> dst_compensate,
                    with_filler_timeslots |-> with_filler_timeslots,
                    result |-> result]
    /\ UNCHANGED timeOthers

\* The datetimes of one week a caller can hold.
WeekDates ==
    {astimezone(utc + k * DAY, tz) :
        utc \in Instants, k \in 0..6, tz \in Zones}

\* to_monday of the schedule objects and of the week view on one date, and
\* to_monday on its own result.
ToMonday(date) ==
    /\ timed = NoTimed
    /\ timed' = [op |-> "to_monday", date |-> date,
                 result |-> to_monday(date),
                 view |-> week_to_monday(date),
                 again |-> to_monday(to_monday(date))]
    /\ UNCHANGED timeOthers

\* The caller is done with the result.
EndTimed ==
    /\ timed # NoTimed
    /\ timed' = NoTimed
    /\ UNCHANGED timeOthers

\* The term of the model in which the functions on datetimes are called.
SaveLongTerm(weeks) ==
    /\ timed = NoTimed
    /\ terms = {}
    /\ terms' = {[start_date |-> 0, end_date |-> weeks * WEEK]}
    /\ UNCHANGED <<store, call, filled, refilled>>
    /\ UNCHANGED fillOthers

TimeNext ==
    \/ \E st \in {DAY - 2, DAY - 1}, date \in Dates : RangeHook(st, date)
    \/ \E date \in Dates \cup NaiveDates, n \in 0..MaxDays :
          DstAddDays(date, n)
    \/ \E date \in Dates, split \in BOOLEAN, dst_compensate \in BOOLEAN,
          with_filler_timeslots \in BOOLEAN :
          Week(date, split, dst_compensate, with_filler_timeslots)
    \/ \E date \in WeekDates : ToMonday(date)
    \/ EndTimed
    \/ \E weeks \in 1..2 : SaveLongTerm(weeks)

(* ---- the store and the calls ---- *)
FillInit ==
    /\ store = {}
    /\ terms = {}
    /\ call = NoCall
    /\ filled = NoOutcome
    /\ refilled = NoOutcome

\* Timeslot(...).save(): a new row with the next primary key.  Rows are
\* saved in schedule order; no code reads the order of primary keys, so a
\* store saved in another order behaves as the one with its keys renamed.
SaveTimeslot(st, dur) ==
    /\ call = NoCall
    /\ Cardinality(store) < MaxStore
    /\ \A s \in store :
          \/ s.start_time < st
          \/ s.start_time = st /\ s.duration <= dur
    /\ store' = store \cup
                {Timeslot(Cardinality(store) + 1, st, dur, RealShow, NoTerm)}
    /\ UNCHANGED <<terms, call, filled, refilled>>
    /\ UNCHANGED fillOthers

\* Term(...).save(): terms do not overlap and start before they end.
SaveTerm(sd, ed) ==
    /\ call = NoCall
    /\ Cardinality(terms) < MaxTerms
    /\ sd < ed
    /\ \A t \in terms : ed <= t.start_date \/ t.end_date <= sd
    /\ terms' = terms \cup {[start_date |-> sd, end_date |-> ed]}
    /\ UNCHANGED <<store, call, filled, refilled>>
    /\ UNCHANGED fillOthers

\* filler.fill(timeslots, start, end) on a list read from the store.
Fill(timeslots, start, end) ==
    /\ call = NoCall
    /\ Distinct(timeslots) /\ Ordered(timeslots)
    /\ filled' = fill(timeslots, start, end)
    /\ call' = [timeslots |-> timeslots, start_time |-> start, end_time |-> end]
    /\ refilled' = NoOutcome
    /\ UNCHANGED <<store, terms>>
    /\ UNCHANGED fillOthers

\* filler.fill(filled, start, end): the second pass over a filled list.
Refill ==
    /\ filled.status = "ok"
    /\ refilled = NoOutcome
    /\ refilled' = fill(filled.list, call.start_time, call.end_time)
    /\ UNCHANGED <<store, terms, call, filled>>
    /\ UNCHANGED fillOthers

\* The request that called fill is over.
EndRequest ==
    /\ call # NoCall
    /\ call' = NoCall
    /\ filled' = NoOutcome
    /\ refilled' = NoOutcome
    /\ UNCHANGED <<store, terms>>
    /\ UNCHANGED fillOthers

FillNext ==
    \/ \E st \in Times, dur \in 0..MaxDur :
          st + dur <= MaxTime /\ SaveTimeslot(st, dur)
    \/ \E sd \in Times, ed \in Times : SaveTerm(sd, ed)
    \/ \E timeslots \in SeqsUpTo(store, Cardinality(store)),
          start \in Times, end \in Times : Fill(timeslots, start, end)
    \/ Refill
    \/ EndRequest


(* ---- utils/list.py ---- *)
\* q[:n] for n >= 0.
Take(q, n) == SubSeq(q, 1, Min2(n, Len(q)))

quantity_rejected_negative(quantity) == quantity < 0

\* The argument check of coming_up.
quantity_rejected(quantity) == quantity <= 0

\* Timeslot.objects.filter(duration__gte=date - F('start_time'))
\* .order_by('start_time'), as a list: the orders the store allows.  Every
\* stored slot of the model is public.
coming_up_query(date) ==
    LET found == {ts \in store : ts.duration >= date - ts.start_time}
    IN  {q \in SeqsUpTo(found, Cardinality(found)) :
            /\ Len(q) = Cardinality(found)
            /\ Distinct(q) /\ Ordered(q)}

\* coming_up(date, quantity, with_filler_timeslots): the outcomes the store
\* allows.  queries counts the store queries made, built the filler slots
\* constructed.  With filler slots asked for, the end of a list that is not
\* empty is read with end_time() (line 56), which raises.
coming_up(date, quantity, with_filler_timeslots) ==
    IF quantity_rejected(quantity)
    THEN {[status |-> "ValueError", msg |-> "'quantity' must be positive.",
           list |-> <<>>, queries |-> 0, built |-> 0]}
    ELSE {LET coming_up_unfilled == Take(q, quantity)
          IN  IF with_filler_timeslots
              THEN IF coming_up_unfilled # <<>>
                   THEN [status |-> "TypeError", msg |-> MsgNotCallable,
                         list |-> <<>>, queries |-> 1, built |-> 0]
                   ELSE LET filled_up == Queried(fill(coming_up_unfilled,
                                                      date, date))
                        IN  IF filled_up.status # "ok" THEN filled_up
                            ELSE [filled_up EXCEPT
                                     !.list = Take(@, quantity)]
              ELSE [status |-> "ok", msg |-> "", list |-> coming_up_unfilled,
                    queries |-> 1, built |-> 0] :
             q \in coming_up_query(date)}

(* ---- calls of coming_up and of filler.timeslot ---- *)
MaxQuantity == 2
\* The quantities a caller passes, those coming_up rejects among them.
Quantities == (0 - 1)..MaxQuantity

NoListed == [op |-> "none"]

ListInit == listed = NoListed

\* list.coming_up(date, quantity, with_filler_timeslots).
ComingUp(date, quantity, with_filler_timeslots) ==
    /\ listed = NoListed
    /\ \E result \in coming_up(date, quantity, with_filler_timeslots) :
          listed' = [op |-> "coming_up", date |-> date,
                     quantity |-> quantity,
                     with_filler_timeslots |-> with_filler_timeslots,
                     result |-> result]
    /\ UNCHANGED listOthers

\* filler.timeslot(start_time, end_time, duration); {} stands for None.
FillerTimeslot(start_time, end_opt, dur_opt) ==
    /\ listed = NoListed
    /\ listed' = [op |-> "timeslot", start_time |-> start_time,
                  end_time |-> end_opt, duration |-> dur_opt,
                  result |-> timeslot([status |-> "ok", msg |-> "",
                                       list |-> <<>>, queries |-> 0,
                                       built |-> 0],
                                      start_time, end_opt, dur_opt)]
    /\ UNCHANGED listOthers

\* The request is over.
EndListed ==
    /\ listed # NoListed
    /\ listed' = NoListed
    /\ UNCHANGED listOthers

\* None, or one of the values.
Optional(S) == {{}} \cup {{x} : x \in S}

ListNext ==
    \/ \E st \in Times, dur \in 0..MaxDur :
          listed = NoListed /\ st + dur <= MaxTime /\ SaveTimeslot(st, dur)
    \/ \E sd \in Times, ed \in Times : listed = NoListed /\ SaveTerm(sd, ed)
    \/ \E date \in Times, quantity \in Quantities,
          with_filler_timeslots \in BOOLEAN :
          ComingUp(date, quantity, with_filler_timeslots)
    \/ \E st \in Times, end_opt \in Optional(Times),
          dur_opt \in Optional(0..MaxDur) :
          FillerTimeslot(st, end_opt, dur_opt)
    \/ EndListed

(* ---- the calls made for a day or a week of the stored schedule ---- *)
MaxWeek == 2
MaxShowDay == 0

\* The dates asked for: the Mondays of the weeks of the model, each as the
\* naive midnight that begins it.
AskedDates == {k * WEEK : k \in 0..MaxWeek}

\* The starts asked for: the start of programming on these dates.
ViewStarts == {ury_start_on_date(date).value : date \in AskedDates}

\* The dates on which the terms of the model start and end: midnight,
\* local time, and the start of programming on the dates asked for.
TermDates ==
    {Instant(make_aware(date, LocalTz).value) : date \in AskedDates}
      \cup {Instant(start) : start \in ViewStarts}

\* The starts of the stored shows of the model: 09:00 and 23:00 local time
\* on the first days of week 1.
ShowStarts ==
    {Instant(make_aware(WEEK + d * DAY + h * HOUR, LocalTz).value) :
        d \in 0..MaxShowDay, h \in {9, 23}}
ShowDurations == {HOUR, 2 * HOUR}

NoShown == [op |-> "none"]

ViewInit == shown = NoShown

\* schedule_available_for(start, step).
Available(start, step) ==
    /\ shown = NoShown
    /\ shown' = [op |-> "schedule_available_for", start |-> start,
                 result |-> schedule_available_for(start, step)]
    /\ UNCHANGED viewOthers

\* The schedule argument of range_builder: the function reads its
\* attributes start and end and nothing else of it.
ScheduleArg(start, end) == [start |-> start, end |-> end]

\* range_builder(schedule), called on an argument whose end is a day or a
\* week after its start.
RangeBuild(start, range) ==
    LET schedule == ScheduleArg(start, plus(start, range))
    IN  /\ shown = NoShown
        /\ \E result \in range_builder(schedule) :
              shown' = [op |-> "range_builder", schedule |-> schedule,
                        result |-> result]
        /\ UNCHANGED viewOthers

MsgNoDstAdd == "'module' object has no attribute 'dst_add'"

\* WeekSchedule(start=start, builder=range_builder).tabulate(), over the
\* show type rows types: the constructor runs first; week_table.tabulate
\* then reads the data of the schedule made, which is what range_builder
\* gives for it.
Tabulate(start, types) ==
    LET new == Schedule__init__("Week", start, 0, "range_builder")
    IN  /\ shown = NoShown
        /\ IF new.exc # ""
           THEN shown' = [op |-> "tabulate", start |-> start,
                          types |-> types, built |-> NoData,
                          result |-> [NoTable EXCEPT !.exc = new.exc,
                                                     !.msg = MsgNoDstAdd]]
           ELSE \E built \in range_builder(new.obj) :
                    shown' = [op |-> "tabulate", start |-> start,
                              types |-> types, built |-> built,
                              result |-> tabulate(
                                  [start |-> new.obj.start, data |-> built],
                                  types)]
        /\ UNCHANGED viewOthers

\* The request is over.
EndShown ==
    /\ shown # NoShown
    /\ shown' = NoShown
    /\ UNCHANGED viewOthers

\* The availability check over the stored terms and timeslots.
ViewNext ==
    \/ \E sd \in TermDates, ed \in TermDates :
          shown = NoShown /\ SaveTerm(sd, ed)
    \/ \E st \in ShowStarts, dur \in ShowDurations :
          shown = NoShown /\ SaveTimeslot(st, dur)
    \/ \E start \in ViewStarts : Available(start, WEEK)
    \/ EndShown

\* range_builder and the week table over the stored terms, timeslots and
\* blocks.
BuildNext ==
    \/ \E sd \in TermDates, ed \in TermDates :
          shown = NoShown /\ SaveTerm(sd, ed)
    \/ \E st \in ShowStarts, dur \in ShowDurations :
          shown = NoShown /\ SaveTimeslot(st, dur)
    \/ shown = NoShown /\ SaveBlock(1)
    \/ \E start \in ViewStarts, range \in {DAY, WEEK} :
          RangeBuild(start, range)
    \/ \E start \in ViewStarts, types \in ShowTypes : Tabulate(start, types)
    \/ EndShown

Init ==
    FillInit /\ BlockInit /\ TimeInit /\ ObjectInit /\ ViewInit /\ ListInit

\* The filler over a store of timeslots and terms.
SpecFill == Init /\ [][FillNext]_vars

\* The block classifier over the block and rule tables.
SpecBlock == Init /\ [][BlockNext]_vars
SpecTime == Init /\ [][TimeNext]_vars
SpecObject == Init /\ [][ObjectNext]_vars
SpecView == Init /\ [][ViewNext]_vars
SpecBuild == Init /\ [][BuildNext]_vars
SpecList == Init /\ [][ListNext]_vars

(* ---- properties of filler.fill ---- *)
FillOk == call # NoCall /\ filled.status = "ok"

IsFiller(ts) == ts.id = 0 /\ ts.show = FillerShow

IsInput(ts) == \E i \in 1..Len(call.timeslots) : call.timeslots[i] = ts

Pairs(q) == 1..(Len(q) - 1)

\* fill was called with start <= end while a term that starts at the first
\* instant is stored, so that every filler slot it may build has a term.
FillCalledInTerm ==
    /\ call # NoCall
    /\ call.start_time <= call.end_time
    /\ \E t \in terms : t.start_date = 0

\* fill was called with start <= end on a list ordered by start time, and
\* returned.
FillSucceeded ==
    /\ call # NoCall
    /\ call.start_time <= call.end_time
    /\ Ordered(call.timeslots)
    /\ filled.status = "ok"

\* C1: whenever fill, called with start <= end on an ordered list (slots
\* that overlap included), returns, each element of the list it returns
\* ends exactly where the next one starts.
C1_Contiguity ==
    FillSucceeded =>
        \A i \in Pairs(filled.list) :
            end_time(filled.list[i]) = filled.list[i + 1].start_time

C1_Witness ==
    /\ FillSucceeded
    /\ call.start_time < call.end_time
    /\ Cardinality(store) = MaxStore
    /\ filled.list # <<>>

\* C2: whenever fill, called with start <= end on a list ordered by start
\* time, returns, the list it returns starts at or before start and ends
\* at or after end.
C2_Coverage ==
    FillSucceeded =>
        /\ filled.list # <<>>
        /\ filled.list[1].start_time <= call.start_time
        /\ end_time(Last(filled.list)) >= call.end_time

C2_Witness ==
    /\ FillSucceeded
    /\ call.start_time < call.end_time
    /\ filled.list[1].start_time = call.start_time
    /\ end_time(Last(filled.list)) > call.end_time

IsReal(ts) == ts.id # 0

\* C3: fill on an ordered list, with start <= end and a term for every
\* filler slot, returns a list that keeps every input slot, unchanged and
\* in the input's order, adds only filler slots and is no shorter than the
\* input.
C3_Preservation ==
    FillCalledInTerm =>
        /\ filled.status = "ok"
        /\ SelectSeq(filled.list, IsReal) = call.timeslots
        /\ Len(filled.list) >= Len(call.timeslots)
        /\ \A i \in 1..Len(filled.list) :
              IsInput(filled.list[i]) \/ IsFiller(filled.list[i])

\* C4: filling the output of a successful fill again, for the same range,
\* succeeds, returns the same list and builds no filler slot.
C4_Idempotent ==
    refilled # NoOutcome =>
        /\ refilled.status = "ok"
        /\ refilled.list = filled.list
        /\ refilled.built = 0

\* C5: a fill whose start is after its end raises the usage error before
\* any store query and before any filler slot is built, whatever the input
\* list; a fill whose start equals its end is not rejected as inverted.
C5_InvertedRange ==
    call # NoCall =>
        /\ call.start_time > call.end_time =>
              /\ filled.status = "ValueError"
              /\ filled.msg = MsgStartAfterEnd
              /\ filled.queries = 0
              /\ filled.built = 0
              /\ filled.list = <<>>
        /\ call.start_time = call.end_time =>
              filled.msg # MsgStartAfterEnd

C5_Witness ==
    /\ call # NoCall
    /\ call.start_time > call.end_time
    /\ call.timeslots # <<>>
    /\ terms # {}
    /\ filled.status = "ValueError"

OneFillerCovering ==
    /\ filled.status = "ok"
    /\ Len(filled.list) = 1
    /\ IsFiller(filled.list[1])
    /\ filled.list[1].start_time <= call.start_time
    /\ end_time(filled.list[1]) >= call.end_time

\* C6: filling an empty list over A..B, when a term contains or precedes A,
\* returns exactly one filler slot covering A..B, whatever the store holds
\* before A and after B.
C6_EmptyFill ==
    (/\ call # NoCall
     /\ call.timeslots = <<>>
     /\ call.start_time <= call.end_time
     /\ \E t \in terms : t.start_date = 0)
        => OneFillerCovering

\* C7: a fill that needs a filler slot where no term contains or precedes
\* its start fails with a ScheduleInconsistencyError.
C7_NoTermIsInconsistency ==
    (call # NoCall /\ filled.msg = MsgNoTerm)
        => filled.status = "ScheduleInconsistencyError"

\* The place of input slot i in the output of the last fill.
PlaceOf(i) ==
    CHOOSE k \in 1..Len(filled.list) : filled.list[k] = call.timeslots[i]

\* C25: for a non-empty input, with start <= end and a term for every
\* filler slot, fill returns a list with a filler slot first if and only if
\* the first input slot starts after start, last if and only if the last
\* slot ends before end, and between two input slots that follow each other
\* if and only if the earlier ends strictly before the later starts; when
\* start is the start of the first slot and end the end of the last, the
\* output begins and ends with these input slots.
C25_FillerOnlyWhereNeeded ==
    (FillCalledInTerm /\ call.timeslots # <<>>) =>
        /\ filled.status = "ok"
        /\ LET input == call.timeslots
               out == filled.list
           IN  /\ IsFiller(out[1]) <=> input[1].start_time > call.start_time
               /\ IsFiller(Last(out))
                     <=> end_time(Last(input)) < call.end_time
               /\ \A i \in Pairs(input) :
                     /\ IsFiller(out[PlaceOf(i) + 1])
                           <=> end_time(input[i]) < input[i + 1].start_time
                     /\ ~IsFiller(out[PlaceOf(i) + 1])
                           => PlaceOf(i + 1) = PlaceOf(i) + 1
               /\ (/\ call.start_time = input[1].start_time
                    /\ call.end_time = end_time(Last(input)))
                     => out[1] = input[1] /\ Last(out) = Last(input)

\* The latest end among the stored timeslots that end at or before time,
\* or time when there is none.
LatestEndBefore(time) ==
    LET ends == {end_time(s) : s \in {x \in store : end_time(x) <= time}}
    IN  IF ends = {} THEN time
        ELSE CHOOSE e \in ends : \A f \in ends : f <= e

\* The earliest start among the stored timeslots that start at or after
\* time, or time when there is none.
EarliestStartAfter(time) ==
    LET starts == {s.start_time : s \in {x \in store : x.start_time >= time}}
    IN  IF starts = {} THEN time
        ELSE CHOOSE e \in starts : \A f \in starts : e <= f

\* C26: with start <= end and a term for every filler slot, the filler
\* slot fill places before the first input slot, or as the only slot of an
\* empty input, starts at the latest end among the stored timeslots that
\* end at or before start, or at start, and so overlaps none of them; the
\* filler slot after the last input slot ends at the earliest start among
\* the stored timeslots that start at or after end, or at end.
C26_FillerEdges ==
    FillCalledInTerm =>
        /\ filled.status = "ok"
        /\ LET input == call.timeslots
               out == filled.list
           IN  /\ (input = <<>> \/ input[1].start_time > call.start_time) =>
                     /\ out[1].start_time = LatestEndBefore(call.start_time)
                     /\ \A s \in store :
                           end_time(s) <= call.start_time
                               => end_time(s) <= out[1].start_time
               /\ (input = <<>> \/ end_time(Last(input)) < call.end_time) =>
                     end_time(Last(out)) = EarliestStartAfter(call.end_time)

(* ---- properties of the block classifier ---- *)
Annotated == annotated.status = "ok"

\* The stored rules that apply to the annotated slot.
ShowRulesOfSlot ==
    {i \in 1..Len(showRules) : showRules[i].show = annotated.slot.show}

RangeRulesOfSlot ==
    {i \in 1..Len(rangeRules) :
        range_rule_matches(rangeRules[i], annotated.slot)}

\* C8: a slot gets the block of a show rule of its show when there is one,
\* else the block of a range rule matching its start when there is one,
\* else the default block.
C8_Precedence ==
    Annotated =>
        /\ ShowRulesOfSlot # {} =>
              /\ annotated.hook = "hook_show"
              /\ \E i \in ShowRulesOfSlot : annotated.block = showRules[i].block
        /\ (ShowRulesOfSlot = {} /\ RangeRulesOfSlot # {}) =>
              /\ annotated.hook = "hook_range"
              /\ \E i \in RangeRulesOfSlot :
                    annotated.block = rangeRules[i].block
        /\ (ShowRulesOfSlot = {} /\ RangeRulesOfSlot = {}) =>
              /\ annotated.hook = "hook_default"
              /\ annotated.block = DEFAULT_SHOW_BLOCK

C8_Witness ==
    /\ Annotated
    /\ \E i \in ShowRulesOfSlot, j \in RangeRulesOfSlot :
          /\ showRules[i].block # rangeRules[j].block
          /\ annotated.block = showRules[i].block

\* C9: when the show of a slot has show rules, the slot gets a block whose
\* priority number is the lowest among the blocks of those rules.
C9_ShowRulePriority ==
    (Annotated /\ ShowRulesOfSlot # {}) =>
        \A i \in ShowRulesOfSlot :
            blocks[annotated.block] <= blocks[showRules[i].block]

\* C10: when no show rule applies and range rules match the start of a
\* slot, the slot gets a block whose priority number is the lowest among
\* the blocks of the matching rules.
C10_RangeRulePriority ==
    (Annotated /\ ShowRulesOfSlot = {} /\ RangeRulesOfSlot # {}) =>
        \A i \in RangeRulesOfSlot :
            blocks[annotated.block] <= blocks[rangeRules[i].block]

(* ---- properties of the functions on datetimes ---- *)
\* The rule 23:00 to 01:00, stored as the offsets 23h and 25h.
WrapRule == [block |-> 1, start_time |-> DAY - 1, end_time |-> DAY + 1]

\* C11: the rule 23:00-01:00 matches every slot whose start, read in the
\* local zone, has a time of day in [23:00, 24:00) or [00:00, 01:00),
\* whatever zone the datetime of the slot is expressed in.
C11_WrapMatchesLocalTime ==
    (/\ timed.op = "hook_range"
     /\ timed.rule = WrapRule
     /\ nld(timed.date) % DAY \in {DAY - 1, 0})
        => timed.result = WrapRule.block

\* C12: adding whole days to an aware datetime yields a datetime with the
\* same local time of day, across the start of daylight saving time and for
\* an input expressed in UTC as well.
C12_SameLocalTimeOfDay ==
    (timed.op = "dst_add_days" /\ ~is_naive(timed.date))
        => /\ timed.result.exc = ""
           /\ nld(timed.result.value) % DAY = nld(timed.date) % DAY

(* ---- properties of the schedule objects ---- *)
\* C13: over any sequence of reads of .data the builder is invoked exactly
\* once, on the first read, and every read returns the value of that first
\* invocation, whatever the builder returns.
C13_BuiltOnce ==
    (made.op = "data" /\ made.reads >= 1)
        => /\ made.exc = ""
           /\ made.after.calls = 1
           /\ made.after.read = made.after.first

\* C14: replace, previous and next return a new schedule and leave the
\* receiver as it was; the new schedule has the receiver's builder and no
\* data, its builder has not run, and it starts one range after (next) or
\* before (previous) the receiver.
C14_NewScheduleShifted ==
    made.op \in {"replace", "previous", "next"} =>
        /\ made.exc = ""
        /\ made.after = made.self
        /\ "builder" \notin DOMAIN made.kwargs
              => made.obj.builder = made.self.builder
        /\ made.obj.data = None /\ made.obj.calls = 0
        /\ made.op = "next" =>
              Instant(made.obj.start) = Instant(made.self.start) + made.self.range
        /\ made.op = "previous" =>
              Instant(made.obj.start) = Instant(made.self.start) - made.self.range

\* C19: week with split_days returns seven day ranges in order, range i
\* starting at the date moved by i days (with daylight saving compensation
\* when dst_compensate is set, by i x 24 hours when not) and spanning one
\* day; without split_days it returns one range of seven days.
C19_WeekRanges ==
    (/\ timed.op = "week"
     /\ timed.with_filler_timeslots => TermOf(Instant(timed.date)) # NoTerm) =>
        /\ timed.result.exc = ""
        /\ timed.split_days =>
              /\ Len(timed.result.ranges) = 7
              /\ \A i \in 1..7 :
                    LET r == timed.result.ranges[i]
                    IN  /\ timed.dst_compensate =>
                              dst_add_days(timed.date, i - 1) = Returned(r.start)
                        /\ ~timed.dst_compensate =>
                              r.start = plus(timed.date, (i - 1) * DAY)
                        /\ r.end = plus(r.start, DAY)
              /\ \A i \in 1..6 :
                    Instant(timed.result.ranges[i].start)
                        < Instant(timed.result.ranges[i + 1].start)
        /\ ~timed.split_days =>
              /\ Len(timed.result.ranges) = 1
              /\ timed.result.ranges[1].start = timed.date
              /\ timed.result.ranges[1].end = plus(timed.date, WEEK)

\* C20: to_monday of a datetime is a Monday at the same time of day, at
\* most six days before it; to_monday of the result is the result; the
\* week view's to_monday returns the same.
C20_ToMonday ==
    timed.op = "to_monday" =>
        /\ isoweekday(timed.result) = 1
        /\ timed.result.wall % DAY = timed.date.wall % DAY
        /\ Instant(timed.date) - Instant(timed.result) \in 0..(WEEK - 1)
        /\ (Instant(timed.date) - Instant(timed.result)) % DAY = 0
        /\ timed.again = timed.result
        /\ timed.view = timed.result

C20_Witness ==
    /\ timed.op = "to_monday"
    /\ isoweekday(timed.date) = 7
    /\ Instant(timed.date) - Instant(timed.result) = 6 * DAY
    /\ timed.date.tz = LocalTz /\ timed.date.off # StdOffset

\* C30: for every schedule s, s.next() starts where s ends and
\* s.previous() ends where s starts; s.next().previous(),
\* s.previous().next() and s.replace() start and end where s does; also
\* when daylight saving time starts inside s or a neighbouring period.
C30_Navigation ==
    made.op \in {"next", "previous", "next_previous", "previous_next",
                 "replace"} =>
        /\ made.exc = ""
        /\ made.op = "next" =>
              Instant(made.obj.start) = Instant(made.self.end)
        /\ made.op = "previous" =>
              Instant(made.obj.end) = Instant(made.self.start)
        /\ (\/ made.op \in {"next_previous", "previous_next"}
            \/ made.op = "replace" /\ made.kwargs = NoKwargs) =>
              /\ Instant(made.obj.start) = Instant(made.self.start)
              /\ Instant(made.obj.end) = Instant(made.self.end)

(* ---- properties of range_builder and of the availability check ---- *)
NoTermAtStart ==
    /\ shown.op = "range_builder"
    /\ TermOf(Instant(shown.schedule.start)) = NoTerm

PriorTermExists ==
    \E t \in terms : t.end_date <= Instant(shown.schedule.start)

\* C15, as stated: when no term holds the start, range_builder returns
\* 'empty' if a term ending at or before the start exists and
\* 'not_in_term' if none does, queries no timeslots and raises nothing.
C15_Sentinels_Stated ==
    NoTermAtStart =>
        /\ shown.result.exc = "" /\ shown.result.slot_queries = 0
        /\ shown.result.list = <<>>
        /\ shown.result.str = IF PriorTermExists THEN "empty"
                               ELSE "not_in_term"

\* C15, amended: when no term holds the start, range_builder returns
\* 'not_in_term' if a term ending at or before the start exists and
\* 'empty' if none does, queries no timeslots and raises nothing.
C15_Sentinels ==
    NoTermAtStart =>
        /\ shown.result.exc = "" /\ shown.result.slot_queries = 0
        /\ shown.result.list = <<>>
        /\ shown.result.str = IF PriorTermExists THEN "not_in_term"
                               ELSE "empty"

C15_Witness ==
    /\ NoTermAtStart
    /\ \E t \in terms : t.end_date = Instant(shown.schedule.start)
    /\ shown.result.str = "not_in_term"
    /\ store # {}

\* C16: for a start in no term the availability check says 'cannot
\* schedule' with 'holiday' when some term ended at or before the start and
\* with 'notermdata' when none did; it says 'can schedule', with no reason,
\* exactly when a term [start_date, end_date) holds the start.
C16_Availability ==
    shown.op = "schedule_available_for" =>
        LET t == Instant(shown.start)
            inside == \E x \in terms : x.start_date <= t /\ t < x.end_date
            ended == \E x \in terms : x.end_date <= t
        IN  /\ shown.result.can = inside
            /\ inside => shown.result.why_not = "None"
            /\ (~inside /\ ended) => shown.result.why_not = "holiday"
            /\ (~inside /\ ~ended) => shown.result.why_not = "notermdata"

C16_Witness ==
    /\ shown.op = "schedule_available_for"
    /\ \E x \in terms : x.end_date = Instant(shown.start)
    /\ shown.result = [can |-> FALSE, why_not |-> "holiday"]

(* ---- properties of the week table ---- *)
\* The start of the week asked for, as WeekSchedule takes it.
WeekStart == to_monday(shown.start)

\* The stored shows that start in the seven days from the start of the
\* week asked for.
ShowsOfWeek ==
    {ts \in store :
        /\ ts.start_time >= Instant(WeekStart)
        /\ ts.start_time < Instant(WeekStart) + WEEK}

\* The table of a week that starts inside a term and holds stored shows was
\* asked for: the data of such a week is the filled list of its shows.
WeekAsked ==
    /\ shown.op = "tabulate"
    /\ TermOf(Instant(WeekStart)) # NoTerm
    /\ ShowsOfWeek # {}

FillerOnly(day_list) ==
    \A i \in 1..Len(day_list) : day_list[i].slot.show = FillerShow

\* The store holds one show, of two hours, on the first day of the week
\* asked for.
OneShowOnFirstDay ==
    /\ Cardinality(store) = 1
    /\ \A ts \in store :
          /\ ts.duration = 2 * HOUR
          /\ Instant(WeekStart) < ts.start_time
          /\ end_time(ts) < Instant(WeekStart) + DAY

CoveredRows(d, i) ==
    LET item == shown.result.data_lists[d][i]
        table == shown.result.table
    IN  {r \in 1..Len(table) :
            /\ nlstart_of(item) <= row_date(table, d - 1, r - 1)
            /\ row_date(table, d - 1, r - 1) < nlend_of(item)}

DayEnd(d) == nld(WeekStart) + d * DAY

InList(item, day_list) == \E i \in 1..Len(day_list) : day_list[i] = item

DayOffset(nl) == (nl - nld(WeekStart)) % DAY

\* The offsets at which a slot of the data that does not collapse begins or
\* has a whole hour strictly between its start and its end.
RowOffsets ==
    UNION {{DayOffset(h) :
              h \in {nlstart_of(shown.built.list[i])}
                   \cup {x \in (nlstart_of(shown.built.list[i]) + 1)
                                ..(nlend_of(shown.built.list[i]) - 1) :
                            x % HOUR = 0}} :
           i \in {j \in 1..Len(shown.built.list) :
                     ~is_collapsible(shown.built.list[j], shown.types).value}}

EmptyTable ==
    empty_table(nld(WeekStart), shown.result.partitions,
                Len(shown.result.data_lists))

\* The start of row r of the table on day d, rows counted from 1.
RowStart(d, r) == row_date(EmptyTable, d - 1, r - 1)

\* The end of slot i of day list d lies strictly between the starts of two
\* rows that follow each other, or before the first row.
EndsInsideRow(d, i) ==
    LET nlend == nlend_of(shown.result.data_lists[d][i])
    IN  \/ \E r \in 1..(Len(EmptyTable) - 1) :
              RowStart(d, r) < nlend /\ nlend < RowStart(d, r + 1)
        \/ EmptyTable # <<>> /\ nlend < RowStart(d, 1)

\* The end of slot i of day list d lies after the start of the last row.
EndsBelowTable(d, i) ==
    \A r \in 1..Len(EmptyTable) :
        RowStart(d, r) < nlend_of(shown.result.data_lists[d][i])

FillerCollapses ==
    /\ shown.types.declared
    /\ \A sh \in DOMAIN shown.types.is_collapsible :
          shown.types.is_collapsible[sh] = (sh = FillerShow)

CellRowStart(d, r) == row_date(shown.result.table, d - 1, r - 1)

\* The cells written in column d for slots that do not collapse, as rows
\* of the table.
ShowCells(d) ==
    {r \in 1..Len(shown.result.table) :
        /\ ~shown.result.table[r].cells[d].none
        /\ ~shown.types.is_collapsible[shown.result.table[r].cells[d].slot.show]}

C21_UsageErrors ==
    /\ (listed.op = "coming_up" /\ listed.quantity <= 0) =>
          /\ listed.result.status = "ValueError"
          /\ listed.result.queries = 0 /\ listed.result.built = 0
          /\ listed.result.list = <<>>
    /\ listed.op = "timeslot" =>
          LET given == Cardinality(listed.end_time)
                          + Cardinality(listed.duration)
          IN  /\ given # 1 =>
                    /\ listed.result.status = "ValueError"
                    /\ listed.result.msg =
                          IF given = 0 THEN MsgSpecify ELSE MsgBoth
                    /\ listed.result.queries = 0 /\ listed.result.built = 0
                    /\ listed.result.list = <<>>
              /\ (given = 1 /\ listed.result.status = "ok") =>
                    /\ Len(listed.result.list) = 1
                    /\ listed.result.list[1].start_time = listed.start_time
                    /\ \A e \in listed.end_time :
                          listed.result.list[1].duration
                              = e - listed.start_time
                    /\ \A d \in listed.duration :
                          listed.result.list[1].duration = d
              /\ given = 1 => listed.result.msg \notin {MsgSpecify, MsgBoth}

C21_Witness ==
    /\ listed.op = "timeslot"
    /\ listed.duration = {} /\ listed.end_time # {}
    /\ listed.result.status = "ok"
    /\ listed.result.list[1].duration = MaxTime
    /\ store # {}

\* C27: coming_up(date, quantity) with quantity > 0 and filler slots, in
\* a store whose term covers every date, returns between one and quantity
\* timeslots ordered by start time, the first of them on air at date
\* (start_time <= date < end_time); a stored timeslot that ended exactly at
\* date is not listed.
C27_ComingUp ==
    (/\ listed.op = "coming_up"
     /\ listed.quantity > 0
     /\ listed.with_filler_timeslots
     /\ \E t \in terms : t.start_date = 0)
        => /\ listed.result.status = "ok"
           /\ Len(listed.result.list) \in 1..listed.quantity
           /\ Ordered(listed.result.list)
           /\ listed.result.list[1].start_time <= listed.date
           /\ listed.date < end_time(listed.result.list[1])
           /\ \A i \in 1..Len(listed.result.list) :
                 ~(/\ listed.result.list[i] \in store
                   /\ end_time(listed.result.list[i]) = listed.date)

====
